---- MODULE Spec2Model ----
(***************************************************************************)
(* Greenplum dialect of sqlglot (src/sqlglot/dialects/greenplum.py):       *)
(* the Keyword Table, the clause parsers, the statement assembler with its *)
(* three session flags, and the serializer.                                *)
(*                                                                         *)
(* SQL text is a sequence of words (whitespace already split away), the    *)
(* tokenizer turns words into tokens [type, text, comments], the parser    *)
(* works on a token sequence and a 1-based index, and the generator        *)
(* produces a sequence of words again.                                     *)
(***************************************************************************)
EXTENDS Integers, Sequences, FiniteSets, TLC

VARIABLES
    _is_external,        \* Parser._is_external exists (it is only ever True)
    _external_readable,  \* Parser._external_readable exists
    _external_writable,  \* Parser._external_writable exists
    sql,                \* the words of the input handled last
    outcome,            \* what the last operation produced
    prev,               \* [parsed, prefix, failed]: the statement parsed before
    generated,          \* the words the generator produced last
    scan                \* what the last prefix scan did (Scanned or NoScan)

vars == <<_is_external, _external_readable, _external_writable, sql, outcome, prev, generated,
          scan>>

(***************************************************************************)
(* Bounds of the model.                                                    *)
(***************************************************************************)
MaxClauses == 2     \* clauses after the column schema of a statement
MaxBody == 3        \* words between the parentheses of a clause
MaxOptions == 2     \* options between the parentheses of a FORMAT clause
MaxBuilt == 3       \* nodes of a hand-built property collection

(***************************************************************************)
(* Text.  text.upper() of every token text of the model, as characters.    *)
(***************************************************************************)
UpperChars(text) ==
    CASE text = "READABLE"   -> <<"R","E","A","D","A","B","L","E">>
      [] text = "WRITABLE"   -> <<"W","R","I","T","A","B","L","E">>
      [] text = "EXTERNAL"   -> <<"E","X","T","E","R","N","A","L">>
      [] text = "CREATE"     -> <<"C","R","E","A","T","E">>
      [] text = "TABLE"      -> <<"T","A","B","L","E">>
      [] text = "VIEW"       -> <<"V","I","E","W">>
      [] text = "LOCATION"   -> <<"L","O","C","A","T","I","O","N">>
      [] text = "FORMAT"     -> <<"F","O","R","M","A","T">>
      [] text = "ENCODING"   -> <<"E","N","C","O","D","I","N","G">>
      [] text = "FORMATTER"  -> <<"F","O","R","M","A","T","T","E","R">>
      [] text = "DELIMITER"  -> <<"D","E","L","I","M","I","T","E","R">>
      [] text = "NULL"       -> <<"N","U","L","L">>
      [] text = "HEADER"     -> <<"H","E","A","D","E","R">>
      [] text = "QUOTE"      -> <<"Q","U","O","T","E">>
      [] text = "ESCAPE"     -> <<"E","S","C","A","P","E">>
      [] text = "NEWLINE"    -> <<"N","E","W","L","I","N","E">>
      [] text = "FILL"       -> <<"F","I","L","L">>
      [] text = "MISSING"    -> <<"M","I","S","S","I","N","G">>
      [] text = "FIELDS"     -> <<"F","I","E","L","D","S">>
      [] text = "AS"         -> <<"A","S">>
      [] text = "ON"         -> <<"O","N">>
      [] text = "ALL"        -> <<"A","L","L">>
      [] text = "MASTER"     -> <<"M","A","S","T","E","R">>
      [] text = "SEGMENTS"   -> <<"S","E","G","M","E","N","T","S">>
      [] text = "INT"        -> <<"I","N","T">>
      [] text = "ON ALL"     -> <<"O","N"," ","A","L","L">>
      [] text = "ON MASTER"  -> <<"O","N"," ","M","A","S","T","E","R">>
      [] text = "ON SEGMENTS" -> <<"O","N"," ","S","E","G","M","E","N","T","S">>
      [] text = "DISTRIBUTED BY" ->
            <<"D","I","S","T","R","I","B","U","T","E","D"," ","B","Y">>
      [] text = "DISTRIBUTED RANDOMLY" ->
            <<"D","I","S","T","R","I","B","U","T","E","D"," ",
              "R","A","N","D","O","M","L","Y">>
      [] text = "DISTRIBUTED" -> <<"D","I","S","T","R","I","B","U","T","E","D">>
      [] text = "BY"         -> <<"B","Y">>
      [] text = "RANDOMLY"   -> <<"R","A","N","D","O","M","L","Y">>
      [] text = "users"      -> <<"U","S","E","R","S">>
      [] text = "t"          -> <<"T">>
      [] text = "id"         -> <<"I","D">>
      [] text = "k"          -> <<"K">>
      [] text = "("          -> <<"(">>
      [] text = ")"          -> <<")">>
      [] text = ","          -> <<",">>
      [] text = "="          -> <<"=">>
      [] OTHER               -> <<"?", text>>

\* F applied to the value of v, with v evaluated once.
With(v, F(_)) == CHOOSE r \in {F(x) : x \in {v}} : TRUE

\* Python's `s in t` for two str values: s occurs in t as a substring.
StrIn(s, t) ==
    \E k \in 0..(Len(t) - Len(s)) : SubSeq(t, k + 1, k + Len(s)) = s

(***************************************************************************)
(* Keyword Table and tokenizer.                                            *)
(***************************************************************************)
\* A string literal of the source and the text of its STRING token.
StringLiterals == {"'a'", "'b'", "'CSV'"}

StringText(word) ==
    CASE word = "'a'" -> "a"
      [] word = "'b'" -> "b"
      [] word = "'CSV'" -> "CSV"
      [] OTHER -> word

\* A double-quoted identifier of the source and the text of its token.
QuotedIdentifiers == {"\"k\""}

IdentifierText(word) == IF word = "\"k\"" THEN "k" ELSE word

\* Greenplum.Tokenizer.KEYWORDS, the entries the dialect adds: single words.
KEYWORDS(word) ==
    CASE word = "EXTERNAL"  -> "CREATE"
      [] word = "LOCATION"  -> "FROM"
      [] word = "FORMAT"    -> "FORMAT"
      [] word = "WRITABLE"  -> "CREATE"
      [] word = "READABLE"  -> "CREATE"
      [] word = "ENCODING"  -> "CHARACTER_SET"
      [] word = "FORMATTER" -> "PROCEDURE"
      [] OTHER -> "NONE"

\* Greenplum.Tokenizer.KEYWORDS, the two-word entries and their token kinds.
MultiWordKeyword(w1, w2) ==
    CASE w1 = "DISTRIBUTED" /\ w2 = "BY"       -> <<"DISTRIBUTED_BY", "DISTRIBUTED BY">>
      [] w1 = "DISTRIBUTED" /\ w2 = "RANDOMLY" -> <<"DISTRIBUTED_RANDOMLY", "DISTRIBUTED RANDOMLY">>
      [] w1 = "ON" /\ w2 = "ALL"               -> <<"ON_ALL", "ON ALL">>
      [] w1 = "ON" /\ w2 = "MASTER"            -> <<"ON_MASTER", "ON MASTER">>
      [] w1 = "ON" /\ w2 = "SEGMENTS"          -> <<"ON_SEGMENTS", "ON SEGMENTS">>
      [] OTHER -> <<"NONE", "">>

\* The keywords and punctuation inherited from the Postgres tokenizer.
BaseKeywords(word) ==
    CASE word = "CREATE" -> "CREATE"
      [] word = "TABLE"  -> "TABLE"
      [] word = "VIEW"   -> "VIEW"
      [] word = "ON"     -> "ON"
      [] word = "ALL"    -> "ALL"
      [] word = "NULL"   -> "NULL"
      [] word = "AS"     -> "ALIAS"
      [] word = "INT"    -> "INT"
      [] word = "("      -> "L_PAREN"
      [] word = ")"      -> "R_PAREN"
      [] word = ","      -> "COMMA"
      [] word = "="      -> "EQ"
      [] OTHER -> "NONE"

\* A token: its kind, its text as written, the comments that lead it.
Token(type, text) == [type |-> type, text |-> text, comments |-> <<>>]

\* The block comments of the source texts of the model.
Comments == {"/*a*/", "/*b*/"}

\* One word to one token: dialect keyword, inherited keyword, literal, name.
WordToken(word) ==
    IF word \in StringLiterals THEN Token("STRING", StringText(word))
    ELSE IF word \in QuotedIdentifiers THEN Token("IDENTIFIER", IdentifierText(word))
    ELSE IF KEYWORDS(word) # "NONE" THEN Token(KEYWORDS(word), word)
    ELSE IF BaseKeywords(word) # "NONE" THEN Token(BaseKeywords(word), word)
    ELSE Token("VAR", word)

\* The lexer takes the longest keyword: two words that form a keyword of the
\* table become one token of that keyword's kind.  A comment is no token:
\* it is kept with the token it leads.
RECURSIVE Tokenize(_)
Tokenize(words) ==
    IF words = <<>> THEN <<>>
    ELSE IF words[1] \in Comments
    THEN With(Tokenize(Tail(words)), LAMBDA rest :
         IF rest = <<>> THEN <<>>
         ELSE <<[rest[1] EXCEPT !.comments = <<words[1]>> \o @]>> \o Tail(rest))
    ELSE IF Len(words) >= 2 /\ MultiWordKeyword(words[1], words[2])[1] # "NONE"
         THEN <<Token(MultiWordKeyword(words[1], words[2])[1],
                      MultiWordKeyword(words[1], words[2])[2])>>
              \o Tokenize(SubSeq(words, 3, Len(words)))
    ELSE <<WordToken(words[1])>> \o Tokenize(Tail(words))

(***************************************************************************)
(* Matching helpers of the generic parser.                                 *)
(***************************************************************************)
\* self._match(token_type): the current token exists and has that kind.
Match(toks, i, type) == i <= Len(toks) /\ toks[i].type = type

\* self._match_texts(texts) with texts a str, as the dialect calls it
\* (`_match_texts("READABLE")`): the current token is no STRING and its
\* upper-cased text satisfies Python's `in` against that str.
MatchTextsStr(toks, i, texts) ==
    /\ i <= Len(toks)
    /\ toks[i].type # "STRING"
    /\ StrIn(UpperChars(toks[i].text), UpperChars(texts))

\* self._match_texts(texts) with texts a list or a dict: membership.
MatchTextsIn(toks, i, texts) ==
    /\ i <= Len(toks)
    /\ toks[i].type # "STRING"
    /\ \E x \in texts : UpperChars(toks[i].text) = UpperChars(x)

(***************************************************************************)
(* Property Node Model.  Every node is a record of one shape; the fields a *)
(* variant does not have stay at their defaults.                           *)
(***************************************************************************)
Node(kind, this, expressions, segments, hasOptions, options) ==
    [kind |-> kind, this |-> this, expressions |-> expressions,
     segments |-> segments, hasOptions |-> hasOptions, options |-> options]

NoNode == Node("None", "", <<>>, "None", FALSE, <<>>)

DistributedByProperty(expressions) ==
    Node("DistributedBy", "", expressions, "None", FALSE, <<>>)

DistributedRandomlyProperty == Node("DistributedRandomly", "", <<>>, "None", FALSE, <<>>)

ExternalProperty == Node("External", "", <<>>, "None", FALSE, <<>>)

WritableProperty == Node("Writable", "", <<>>, "None", FALSE, <<>>)

ReadableProperty == Node("Readable", "", <<>>, "None", FALSE, <<>>)

\* this is an Array of string literals; segments is None or a scope name.
LocationProperty(locations, segments) ==
    Node("Location", "", locations, segments, FALSE, <<>>)

\* options is None (hasOptions = FALSE) or a dict, kept as its items in
\* insertion order; a value is True (isTrue) or a str (val).
FormatProperty(this, hasOptions, options) ==
    Node("Format", this, <<>>, "None", hasOptions, options)

EncodingProperty(this) == Node("Encoding", this, <<>>, "None", FALSE, <<>>)

Item(key, isTrue, val) == [key |-> key, isTrue |-> isTrue, val |-> val]

\* options[key] = value on a Python dict: a key already present keeps its
\* place and takes the new value, a new key goes last.
DictSet(options, item) ==
    IF \E j \in 1..Len(options) : options[j].key = item.key
    THEN [j \in 1..Len(options) |->
            IF options[j].key = item.key THEN item ELSE options[j]]
    ELSE Append(options, item)

(***************************************************************************)
(* Clause parsers.  Each takes the tokens and the index just after the     *)
(* clause keyword and gives [ok, msg, node, pos]: a node and the index     *)
(* after the clause, or the message of the error raised.                   *)
(***************************************************************************)
Ok(node, pos) == [ok |-> TRUE, msg |-> "", node |-> node, pos |-> pos]

\* self.raise_error(message): the parse of the statement is aborted.
RaiseError(msg, pos) == [ok |-> FALSE, msg |-> msg, node |-> NoNode, pos |-> pos]

\* self._parse_id_var(): an identifier at i, or nothing.
IsIdVar(toks, i) == Match(toks, i, "VAR") \/ Match(toks, i, "IDENTIFIER")

\* self._parse_csv(self._parse_id_var) after its first item: each comma is
\* consumed and an identifier after it, when there is one, is kept.
RECURSIVE CsvRest(_, _, _)
CsvRest(toks, i, items) ==
    IF Match(toks, i, "COMMA")
    THEN IF IsIdVar(toks, i + 1)
         THEN CsvRest(toks, i + 2, Append(items, toks[i + 1].text))
         ELSE CsvRest(toks, i + 1, items)
    ELSE [items |-> items, pos |-> i]

ParseCsvIdVar(toks, i) ==
    IF IsIdVar(toks, i)
    THEN CsvRest(toks, i + 1, <<toks[i].text>>)
    ELSE CsvRest(toks, i, <<>>)

\* self.expression(DistributedByProperty, expressions=exprs): the node is
\* validated against arg_types = {"expressions": True}; an empty list for
\* a required argument is an error.
ExpressionDistributedBy(exprs, pos) ==
    IF exprs = <<>>
    THEN RaiseError("Required argument 'expressions' missing for DistributedByProperty", pos)
    ELSE Ok(DistributedByProperty(exprs), pos)

\* _parse_distributed_by without the check for the closing parenthesis.
_parse_distributed_by_no_close(toks, i) ==
    IF ~Match(toks, i, "L_PAREN")
    THEN RaiseError("Expected '(' after DISTRIBUTED BY", i)
    ELSE With(ParseCsvIdVar(toks, i + 1), LAMBDA csv :
         ExpressionDistributedBy(csv.items, csv.pos + 1))

_parse_distributed_by(toks, i) ==
    IF ~Match(toks, i, "L_PAREN")
    THEN RaiseError("Expected '(' after DISTRIBUTED BY", i)
    ELSE With(ParseCsvIdVar(toks, i + 1), LAMBDA csv :
         IF ~Match(toks, csv.pos, "R_PAREN")
         THEN RaiseError("Expected ')' after DISTRIBUTED BY column list", csv.pos)
         ELSE ExpressionDistributedBy(csv.items, csv.pos + 1))

\* The while-loop of _parse_location: an optional string, then a comma to
\* go round again or anything else to leave.
RECURSIVE LocationList(_, _, _)
LocationList(toks, i, locations) ==
    LET isStr == Match(toks, i, "STRING")
        j == IF isStr THEN i + 1 ELSE i
        locs == IF isStr THEN Append(locations, toks[i].text) ELSE locations
    IN IF Match(toks, j, "COMMA")
       THEN LocationList(toks, j + 1, locs)
       ELSE [items |-> locs, pos |-> j]

\* The segment specification of _parse_location, from the index after ')'.
LocationSegments(toks, i) ==
    IF Match(toks, i, "ON")
    THEN IF MatchTextsIn(toks, i + 1, {"ALL"})
         THEN [segments |-> "ALL", pos |-> i + 2]
         ELSE IF MatchTextsIn(toks, i + 1, {"MASTER"})
         THEN [segments |-> "MASTER", pos |-> i + 2]
         ELSE IF MatchTextsIn(toks, i + 1, {"SEGMENTS"})
         THEN [segments |-> "SEGMENTS", pos |-> i + 2]
         ELSE [segments |-> "None", pos |-> i + 1]
    ELSE [segments |-> "None", pos |-> i]

\* _parse_location without the check for an empty list.
_parse_location_no_empty_check(toks, i) ==
    IF ~Match(toks, i, "L_PAREN")
    THEN RaiseError("Expected '(' after LOCATION", i)
    ELSE With(LocationList(toks, i + 1, <<>>), LAMBDA list :
         IF ~Match(toks, list.pos, "R_PAREN")
         THEN RaiseError("Expected ')' after LOCATION parameters", list.pos)
         ELSE With(LocationSegments(toks, list.pos + 1), LAMBDA seg :
              Ok(LocationProperty(list.items, seg.segments), seg.pos)))

_parse_location(toks, i) ==
    IF ~Match(toks, i, "L_PAREN")
    THEN RaiseError("Expected '(' after LOCATION", i)
    ELSE With(LocationList(toks, i + 1, <<>>), LAMBDA list :
         IF ~Match(toks, list.pos, "R_PAREN")
         THEN RaiseError("Expected ')' after LOCATION parameters", list.pos)
         ELSE IF list.items = <<>>
         THEN RaiseError("Expected at least one location in LOCATION clause", list.pos + 1)
         ELSE With(LocationSegments(toks, list.pos + 1), LAMBDA seg :
              Ok(LocationProperty(list.items, seg.segments), seg.pos)))

_parse_encoding(toks, i) ==
    IF ~Match(toks, i, "STRING")
    THEN RaiseError("Expected encoding string after ENCODING", i)
    ELSE Ok(EncodingProperty(toks[i].text), i + 1)

\* str.upper() of an identifier's text.
UpperText(text) ==
    CASE text = "k" -> "K"
      [] text = "t" -> "T"
      [] text = "id" -> "ID"
      [] text = "users" -> "USERS"
      [] OTHER -> text

\* The message of raise_error("Expected string value for <key>").
ExpectedStringValue(key) ==
    CASE key = "FORMATTER" -> "Expected string value for FORMATTER"
      [] key = "DELIMITER" -> "Expected string value for DELIMITER"
      [] key = "NULL"      -> "Expected string value for NULL"
      [] key = "QUOTE"     -> "Expected string value for QUOTE"
      [] key = "ESCAPE"    -> "Expected string value for ESCAPE"
      [] key = "NEWLINE"   -> "Expected string value for NEWLINE"
      [] OTHER             -> "Expected string value for K"

\* One pass of the option loop: [err, pos, options], err "" when none.
Step(err, pos, options) == [err |-> err, pos |-> pos, options |-> options]

\* The body shared by the value-taking keys, from the index after the key:
\* a separator ('=' always, AS where the key's branch tries it), then a
\* string.  Without a separator nothing is consumed, recorded or raised.
ValueOption(toks, j, options, key, triesAs) ==
    IF (triesAs /\ MatchTextsStr(toks, j, "AS")) \/ Match(toks, j, "EQ")
    THEN IF Match(toks, j + 1, "STRING")
         THEN Step("", j + 2, DictSet(options, Item(key, FALSE, toks[j + 1].text)))
         ELSE Step(ExpectedStringValue(key), j + 1, options)
    ELSE Step("", j, options)

\* The if/elif chain inside the option loop of _parse_format.
FormatOption(toks, i, options) ==
    IF MatchTextsStr(toks, i, "FORMATTER")
    THEN ValueOption(toks, i + 1, options, "FORMATTER", FALSE)
    ELSE IF MatchTextsStr(toks, i, "DELIMITER")
    THEN ValueOption(toks, i + 1, options, "DELIMITER", TRUE)
    ELSE IF MatchTextsStr(toks, i, "NULL")
    THEN ValueOption(toks, i + 1, options, "NULL", TRUE)
    ELSE IF MatchTextsStr(toks, i, "HEADER")
    THEN Step("", i + 1, DictSet(options, Item("HEADER", TRUE, "")))
    ELSE IF MatchTextsStr(toks, i, "QUOTE")
    THEN ValueOption(toks, i + 1, options, "QUOTE", TRUE)
    ELSE IF MatchTextsStr(toks, i, "ESCAPE")
    THEN ValueOption(toks, i + 1, options, "ESCAPE", TRUE)
    ELSE IF MatchTextsStr(toks, i, "NEWLINE")
    THEN ValueOption(toks, i + 1, options, "NEWLINE", TRUE)
    ELSE IF MatchTextsStr(toks, i, "FILL")
    THEN IF MatchTextsStr(toks, i + 1, "MISSING")
         THEN IF MatchTextsStr(toks, i + 2, "FIELDS")
              THEN Step("", i + 3, DictSet(options, Item("FILL_MISSING_FIELDS", TRUE, "")))
              ELSE Step("", i + 2, options)
         ELSE Step("", i + 1, options)
    ELSE IF Match(toks, i, "IDENTIFIER")
    THEN ValueOption(toks, i + 1, options, UpperText(toks[i].text), FALSE)
    ELSE Step("", i, options)

\* The while-loop of _parse_format: one option, then a comma to go round
\* again or anything else to leave.
RECURSIVE FormatOptions(_, _, _)
FormatOptions(toks, i, options) ==
    With(FormatOption(toks, i, options), LAMBDA s :
        IF s.err # "" THEN s
        ELSE IF Match(toks, s.pos, "COMMA")
        THEN FormatOptions(toks, s.pos + 1, s.options)
        ELSE s)

_parse_format(toks, i) ==
    IF ~Match(toks, i, "STRING")
    THEN RaiseError("Expected format string after FORMAT", i)
    ELSE IF Match(toks, i + 1, "L_PAREN")
    THEN With(FormatOptions(toks, i + 2, <<>>), LAMBDA s :
         IF s.err # "" THEN RaiseError(s.err, s.pos)
         ELSE IF ~Match(toks, s.pos, "R_PAREN")
         THEN RaiseError("Expected ')' after FORMAT options", s.pos)
         ELSE Ok(FormatProperty(toks[i].text, s.options # <<>>, s.options), s.pos + 1))
    ELSE Ok(FormatProperty(toks[i].text, FALSE, <<>>), i + 1)

(***************************************************************************)
(* Serializer.  Text is produced as a sequence of words.                   *)
(***************************************************************************)
\* self.sql(literal) of a string literal: the text between single quotes.
SqlString(text) ==
    CASE text = "a" -> "'a'"
      [] text = "b" -> "'b'"
      [] text = "CSV" -> "'CSV'"
      [] OTHER -> text

\* ", ".join(parts), each part a sequence of words.
RECURSIVE CommaJoin(_)
CommaJoin(parts) ==
    IF parts = <<>> THEN <<>>
    ELSE IF Len(parts) = 1 THEN parts[1]
    ELSE parts[1] \o <<",">> \o CommaJoin(Tail(parts))

\* Generator._format_options: a True value gives the bare key, any other
\* value gives KEY='value'.
_format_options(options) ==
    CommaJoin([j \in 1..Len(options) |->
        IF options[j].isTrue THEN <<options[j].key>>
        ELSE <<options[j].key, "=", SqlString(options[j].val)>>])

\* Generator.TRANSFORMS: the text of one property node.
TRANSFORMS(e) ==
    CASE e.kind = "DistributedBy" ->
            <<"DISTRIBUTED", "BY", "(">>
            \o CommaJoin([j \in 1..Len(e.expressions) |-> <<e.expressions[j]>>])
            \o <<")">>
      [] e.kind = "DistributedRandomly" -> <<"DISTRIBUTED", "RANDOMLY">>
      [] e.kind = "External" -> <<"EXTERNAL">>
      [] e.kind = "Writable" -> <<"WRITABLE">>
      [] e.kind = "Readable" -> <<"READABLE">>
      [] e.kind = "Location" ->
            <<"LOCATION", "(">>
            \o CommaJoin([j \in 1..Len(e.expressions) |-> <<SqlString(e.expressions[j])>>])
            \o <<")">>
            \o (IF e.segments # "None" THEN <<"ON", e.segments>> ELSE <<>>)
      [] e.kind = "Format" ->
            <<"FORMAT", SqlString(e.this)>>
            \o (IF e.hasOptions /\ e.options # <<>>
                THEN <<"(">> \o _format_options(e.options) \o <<")">>
                ELSE <<>>)
      [] e.kind = "Encoding" -> <<"ENCODING", SqlString(e.this)>>
      [] OTHER -> <<>>

\* PROPERTIES_LOCATION with LocationProperty placed like the markers.
PROPERTIES_LOCATION_location_post_create(kind) ==
    IF kind \in {"External", "Writable", "Readable", "Location"}
    THEN "POST_CREATE" ELSE "POST_SCHEMA"

\* Generator.PROPERTIES_LOCATION: the placement category of a node.
PROPERTIES_LOCATION(kind) ==
    CASE kind = "DistributedBy"       -> "POST_SCHEMA"
      [] kind = "DistributedRandomly" -> "POST_SCHEMA"
      [] kind = "External"            -> "POST_CREATE"
      [] kind = "Writable"            -> "POST_CREATE"
      [] kind = "Readable"            -> "POST_CREATE"
      [] kind = "Location"            -> "POST_SCHEMA"
      [] kind = "Format"              -> "POST_SCHEMA"
      [] kind = "Encoding"            -> "POST_SCHEMA"
      [] OTHER                        -> "UNSUPPORTED"

\* The nodes of a collection that have one placement, in collection order.
RECURSIVE PropertiesAt(_, _)
PropertiesAt(properties, location) ==
    IF properties = <<>> THEN <<>>
    ELSE (IF PROPERTIES_LOCATION(properties[1].kind) = location
          THEN <<properties[1]>> ELSE <<>>)
         \o PropertiesAt(Tail(properties), location)

\* The texts of a sequence of nodes, one after the other.
RECURSIVE PropertiesSql(_)
PropertiesSql(properties) ==
    IF properties = <<>> THEN <<>>
    ELSE TRANSFORMS(properties[1]) \o PropertiesSql(Tail(properties))

\* A CREATE statement: its kind, name and column schema as the generic
\* parser read them, and its property collection (args["properties"] may
\* be absent).
Create(kind, name, schema, hasProperties, properties) ==
    [kind |-> kind, name |-> name, schema |-> schema,
     hasProperties |-> hasProperties, properties |-> properties]

NoCreate == Create("None", "", <<>>, FALSE, <<>>)

\* The generic generator of a CREATE statement: the POST_CREATE nodes
\* between CREATE and the kind, the POST_SCHEMA nodes after the schema, each
\* group in the order of the collection.
create_sql(create) ==
    <<"CREATE">>
    \o PropertiesSql(PropertiesAt(create.properties, "POST_CREATE"))
    \o <<create.kind, create.name>>
    \o create.schema
    \o PropertiesSql(PropertiesAt(create.properties, "POST_SCHEMA"))

(***************************************************************************)
(* The generic table-create parse the dialect hooks into.                  *)
(***************************************************************************)
\* Parser.PROPERTY_PARSERS: the clause keywords the dialect registers.
PROPERTY_PARSERS ==
    {"DISTRIBUTED BY", "DISTRIBUTED RANDOMLY", "LOCATION", "FORMAT", "ENCODING"}

\* PROPERTY_PARSERS[keyword](self), from the index after the keyword.
ParseProperty(toks, i) ==
    CASE toks[i].text = "DISTRIBUTED BY" -> _parse_distributed_by(toks, i + 1)
      [] toks[i].text = "DISTRIBUTED RANDOMLY" -> Ok(DistributedRandomlyProperty, i + 1)
      [] toks[i].text = "LOCATION" -> _parse_location(toks, i + 1)
      [] toks[i].text = "FORMAT" -> _parse_format(toks, i + 1)
      [] OTHER -> _parse_encoding(toks, i + 1)

\* The result of a statement-level parse: a statement and the index after
\* it, or the message of the error raised.
Parsed(create, pos) == [ok |-> TRUE, msg |-> "", create |-> create, pos |-> pos]

Failed(msg, pos) == [ok |-> FALSE, msg |-> msg, create |-> NoCreate, pos |-> pos]

\* The generic property loop: clauses are parsed and appended in source
\* order for as long as a registered clause keyword is the current token.
RECURSIVE ParseProperties(_, _, _)
ParseProperties(toks, i, properties) ==
    IF MatchTextsIn(toks, i, PROPERTY_PARSERS)
    THEN With(ParseProperty(toks, i), LAMBDA r :
         IF r.ok THEN ParseProperties(toks, r.pos, Append(properties, r.node))
         ELSE [ok |-> FALSE, msg |-> r.msg, properties |-> properties, pos |-> r.pos])
    ELSE [ok |-> TRUE, msg |-> "", properties |-> properties, pos |-> i]

\* The generic table-create parser, from index i: the kind, the name, the
\* column schema of a table, the clauses; a token left over is an error.
GenericTableCreate(toks, i) ==
    IF ~(Match(toks, i, "TABLE") \/ Match(toks, i, "VIEW"))
    THEN Failed("Expected TABLE or VIEW", i)
    ELSE IF ~IsIdVar(toks, i + 1)
    THEN Failed("Expected a name", i + 1)
    ELSE IF toks[i].type = "VIEW"
    THEN IF i + 2 <= Len(toks) THEN Failed("Invalid expression / Unexpected token", i + 2)
         ELSE Parsed(Create("VIEW", toks[i + 1].text, <<>>, FALSE, <<>>), i + 2)
    ELSE IF ~(/\ Match(toks, i + 2, "L_PAREN") /\ IsIdVar(toks, i + 3)
              /\ Match(toks, i + 4, "INT") /\ Match(toks, i + 5, "R_PAREN"))
    THEN Failed("Expected a column schema", i + 2)
    ELSE With(ParseProperties(toks, i + 6, <<>>), LAMBDA p :
         IF ~p.ok THEN Failed(p.msg, p.pos)
         ELSE IF p.pos <= Len(toks)
         THEN Failed("Invalid expression / Unexpected token", p.pos)
         ELSE Parsed(Create("TABLE", toks[i + 1].text,
                            <<"(", toks[i + 3].text, "INT", ")">>,
                            p.properties # <<>>, p.properties), p.pos))

(***************************************************************************)
(* Statement assembler.  The session flags are Python attributes that are  *)
(* either absent or True: a flag is TRUE when the attribute exists.        *)
(***************************************************************************)
Flags(external, readable, writable) ==
    [external |-> external, readable |-> readable, writable |-> writable]

\* self._comments while the parser stands at index i: the comments of the
\* token it consumed last.
BufferedComments(toks, i) ==
    IF i >= 2 /\ i - 1 <= Len(toks) THEN toks[i - 1].comments ELSE <<>>

\* What one call of _parse_table_create did before it delegated: the index
\* and the comment buffer it was entered with, the flags before and after
\* the scan, the index and the buffer the generic parser started from, and
\* the statement the generic parser returned.
Scanned(pos, comments0, before, flags, start, comments, generic) ==
    [called |-> TRUE, pos |-> pos, comments0 |-> comments0, before |-> before,
     flags |-> flags, start |-> start, comments |-> comments, generic |-> generic]

NoScan ==
    [called |-> FALSE, pos |-> 0, comments0 |-> <<>>,
     before |-> Flags(FALSE, FALSE, FALSE), flags |-> Flags(FALSE, FALSE, FALSE),
     start |-> 0, comments |-> <<>>, generic |-> NoCreate]

\* _parse_table_create with a backtrack that puts back the index alone.
_parse_table_create_index_only(toks, i, flags) ==
    LET pos == i
        comments == BufferedComments(toks, i)
        isReadable == MatchTextsStr(toks, i, "READABLE")
        isWritable == ~isReadable /\ MatchTextsStr(toks, i, "WRITABLE")
        readable == flags.readable \/ isReadable
        writable == flags.writable \/ isWritable
        j == IF isReadable \/ isWritable THEN i + 1 ELSE i
        isExternal == MatchTextsStr(toks, j, "EXTERNAL")
        start == IF isExternal THEN j + 1
                 ELSE IF readable \/ writable THEN pos
                 ELSE j
        buffer == IF isExternal THEN BufferedComments(toks, j + 1)
                  ELSE BufferedComments(toks, j)
    IN With(GenericTableCreate(toks, start), LAMBDA g :
       [flags |-> Flags(flags.external \/ isExternal, readable, writable),
        start |-> start,
        result |-> g,
        scan |-> Scanned(pos, comments, flags,
                         Flags(flags.external \/ isExternal, readable, writable),
                         start, buffer, g.create)])

\* Parser._parse_table_create: the prefix scan, the backtrack, and the call
\* of the generic table-create parser.  Gives the flags after the scan, the
\* index the generic parser starts at, that parser's result, and the record
\* of the scan.
_parse_table_create(toks, i, flags) ==
    LET pos == i
        comments == BufferedComments(toks, i)
        isReadable == MatchTextsStr(toks, i, "READABLE")
        isWritable == ~isReadable /\ MatchTextsStr(toks, i, "WRITABLE")
        readable == flags.readable \/ isReadable
        writable == flags.writable \/ isWritable
        j == IF isReadable \/ isWritable THEN i + 1 ELSE i
        isExternal == MatchTextsStr(toks, j, "EXTERNAL")
        start == IF isExternal THEN j + 1
                 ELSE IF readable \/ writable THEN pos
                 ELSE j
        buffer == IF isExternal THEN BufferedComments(toks, j + 1)
                  ELSE IF readable \/ writable THEN comments
                  ELSE BufferedComments(toks, j)
    IN With(GenericTableCreate(toks, start), LAMBDA g :
       [flags |-> Flags(flags.external \/ isExternal, readable, writable),
        start |-> start,
        result |-> g,
        scan |-> Scanned(pos, comments, flags,
                         Flags(flags.external \/ isExternal, readable, writable),
                         start, buffer, g.create)])

\* _parse_create appending the modifier's marker before the External one.
Markers_modifier_first(flags) ==
    (IF flags.readable THEN <<ReadableProperty>> ELSE <<>>)
    \o (IF flags.writable THEN <<WritableProperty>> ELSE <<>>)
    \o <<ExternalProperty>>

\* The marker nodes _parse_create appends when _is_external is set.
Markers(flags) ==
    <<ExternalProperty>>
    \o (IF flags.readable THEN <<ReadableProperty>> ELSE <<>>)
    \o (IF flags.writable THEN <<WritableProperty>> ELSE <<>>)

\* Parser._parse_create, from the index after CREATE: the generic
\* create-parse (it calls _parse_table_create), then the post-processing.
\* An error raised inside leaves before any of the post-processing runs.
_parse_create(toks, i, flags) ==
    With(_parse_table_create(toks, i, flags), LAMBDA t :
       IF ~t.result.ok
       THEN [flags |-> t.flags, result |-> t.result, scan |-> t.scan]
       ELSE IF t.result.create.kind = "TABLE" /\ t.flags.external
       THEN [flags |-> Flags(FALSE, FALSE, FALSE),
             result |-> Parsed(Create(t.result.create.kind, t.result.create.name,
                                      t.result.create.schema, TRUE,
                                      t.result.create.properties \o Markers(t.flags)),
                               t.result.pos),
             scan |-> t.scan]
       ELSE [flags |-> t.flags, result |-> t.result, scan |-> t.scan])

\* Parser._parse_statement: the generic statement parse; its except-branch
\* does nothing and raises the error again.
_parse_statement(toks, flags) ==
    IF ~Match(toks, 1, "CREATE")
    THEN [flags |-> flags, result |-> Failed("Invalid expression / Unexpected token", 1),
          scan |-> NoScan]
    ELSE _parse_create(toks, 2, flags)

(***************************************************************************)
(* Inputs.                                                                 *)
(***************************************************************************)
\* All sequences over S of length at most n.
SeqsUpTo(S, n) == UNION {[1..k -> S] : k \in 0..n}

\* The concatenation of a sequence of word sequences.
RECURSIVE Flatten(_)
Flatten(parts) ==
    IF parts = <<>> THEN <<>> ELSE parts[1] \o Flatten(Tail(parts))

\* [READABLE|WRITABLE] EXTERNAL, or nothing; a modifier without EXTERNAL.
ExternalPrefixes ==
    {<<"EXTERNAL">>, <<"READABLE", "EXTERNAL">>, <<"WRITABLE", "EXTERNAL">>}

Prefixes == ExternalPrefixes \cup {<<>>, <<"READABLE">>, <<"WRITABLE">>}

\* Clauses a statement of the model may carry after its column schema.
StatementClauses ==
    {<<"LOCATION", "(", "'a'", ")">>,
     <<"LOCATION", "(", ")">>,
     <<"FORMAT", "'CSV'">>,
     <<"ENCODING", "'a'">>,
     <<"DISTRIBUTED", "BY", "(", "id", ")">>}

TableStatements ==
    {<<"CREATE">> \o p \o <<"TABLE", "users", "(", "id", "INT", ")">> \o Flatten(c) :
        p \in Prefixes, c \in SeqsUpTo(StatementClauses, MaxClauses)}

Statements == TableStatements \cup {<<"CREATE", "VIEW", "users">>}

\* The statement text carries [READABLE|WRITABLE] EXTERNAL after CREATE.
HasExternalPrefix(words) ==
    \E p \in ExternalPrefixes :
        /\ Len(words) >= 1 + Len(p)
        /\ SubSeq(words, 2, 1 + Len(p)) = p

(***************************************************************************)
(* Spec: one parser instance parsing one statement after the other.        *)
(***************************************************************************)
Outcome(op, ok, msg, create, node, pos) ==
    [op |-> op, ok |-> ok, msg |-> msg, create |-> create, node |-> node, pos |-> pos]

NoOutcome == Outcome("none", FALSE, "", NoCreate, NoNode, 0)

NoPrev == [parsed |-> FALSE, prefix |-> FALSE, failed |-> FALSE]

Init ==
    /\ _is_external = FALSE
    /\ _external_readable = FALSE
    /\ _external_writable = FALSE
    /\ sql = <<>>
    /\ outcome = NoOutcome
    /\ prev = NoPrev
    /\ generated = <<>>
    /\ scan = NoScan

\* parser.parse of one statement on the instance, whatever came before.
ParseStatement(words) ==
    \E r \in {_parse_statement(Tokenize(words),
                               Flags(_is_external, _external_readable, _external_writable))} :
       /\ _is_external' = r.flags.external
       /\ _external_readable' = r.flags.readable
       /\ _external_writable' = r.flags.writable
       /\ sql' = words
       /\ outcome' = Outcome("statement", r.result.ok, r.result.msg,
                             r.result.create, NoNode, r.result.pos)
       /\ prev' = [parsed |-> outcome.op = "statement",
                   prefix |-> HasExternalPrefix(sql),
                   failed |-> outcome.op = "statement" /\ ~outcome.ok]
       /\ scan' = r.scan
       /\ UNCHANGED generated

Next == \E words \in Statements : ParseStatement(words)

Spec == Init /\ [][Next]_vars

\* The kinds of the nodes of the statement produced last.
Kinds(create) == {create.properties[j].kind : j \in 1..Len(create.properties)}

MarkerKinds == {"External", "Readable", "Writable"}

(***************************************************************************)
(* SpecScan: the same parser instance on statements that vary what the     *)
(* prefix scan meets: the prefix, the table's name, comments before CREATE *)
(* and before the word after it, and the clauses behind the schema.        *)
(***************************************************************************)
ScanNames == {"users", "t"}

ScanTails == {<<>>, <<"LOCATION", "(", "'a'", ")", "FORMAT", "'CSV'">>}

\* No comment at all, or one before CREATE and another before the next word.
ScanComments == {<<<<>>, <<>>>>, <<<<"/*a*/">>, <<"/*b*/">>>>}

ScanStatements ==
    {c[1] \o <<"CREATE">> \o c[2] \o p \o <<"TABLE", n, "(", "id", "INT", ")">> \o x :
        c \in ScanComments, p \in Prefixes, n \in ScanNames, x \in ScanTails}
    \cup {<<"CREATE", "VIEW", "users">>}

NextScan == \E words \in ScanStatements : ParseStatement(words)

SpecScan == Init /\ [][NextScan]_vars

\* The upper-cased text of the token at index i, "" behind the last token.
TextAt(toks, i) == IF i >= 1 /\ i <= Len(toks) THEN UpperText(toks[i].text) ELSE ""

(***************************************************************************)
(* SpecClause: the clause parsers as functions of the clause's words.  An  *)
(* input is a clause keyword and what follows it; it is tokenized with the *)
(* Keyword Table and handed to the parser PROPERTY_PARSERS registers.      *)
(***************************************************************************)
Opens == {<<"(">>, <<>>}

Closes == {<<")">>, <<>>}

LocationSuffixes ==
    {<<>>, <<"ON", "ALL">>, <<"ON", "MASTER">>, <<"ON", "SEGMENTS">>, <<"ON">>}

LocationInputs ==
    {<<"LOCATION">> \o o \o b \o c \o x :
        o \in Opens, b \in SeqsUpTo({"'a'", "'b'", ",", "id"}, MaxBody),
        c \in Closes, x \in LocationSuffixes}

DistributedByInputs ==
    {<<"DISTRIBUTED", "BY">> \o o \o b \o c :
        o \in Opens, b \in SeqsUpTo({"id", "users", ","}, MaxBody), c \in Closes}

\* The keys of _parse_format that take a value, and the quoted identifier
\* that stands for a generic key.
ValueKeys == {"FORMATTER", "DELIMITER", "NULL", "QUOTE", "ESCAPE", "NEWLINE"}

GenericKeys == QuotedIdentifiers

\* One option as written: a key with '=', AS or no separator before its
\* value, a key without a value, a boolean key, an empty option.
OptionPhrases ==
    UNION {{<<k, "=", "'a'">>, <<k, "AS", "'a'">>, <<k, "'a'">>, <<k>>, <<k, "=">>} :
              k \in ValueKeys \cup GenericKeys}
    \cup {<<"HEADER">>, <<"FILL", "MISSING", "FIELDS">>, <<"FILL", "MISSING">>, <<>>}

FormatInputs ==
    {<<"FORMAT">> \o n : n \in {<<"'CSV'">>, <<>>}}
    \cup {<<"FORMAT">> \o n \o <<"(">> \o CommaJoin(o) \o c :
            n \in {<<"'CSV'">>, <<>>}, o \in SeqsUpTo(OptionPhrases, MaxOptions),
            c \in Closes}

EncodingInputs == {<<"ENCODING", "'a'">>, <<"ENCODING">>, <<"ENCODING", "id">>}

ClauseInputs == LocationInputs \cup DistributedByInputs \cup FormatInputs \cup EncodingInputs

InitClause ==
    /\ _is_external = FALSE
    /\ _external_readable = FALSE
    /\ _external_writable = FALSE
    /\ sql \in ClauseInputs
    /\ outcome = NoOutcome
    /\ prev = NoPrev
    /\ generated = <<>>
    /\ scan = NoScan

\* The clause parser registered for the keyword, then the node's text.
ParseClause(op) ==
    /\ \E r \in {ParseProperty(Tokenize(sql), 1)} :
          /\ outcome' = Outcome(op, r.ok, r.msg, NoCreate, r.node, r.pos)
          /\ generated' = IF r.ok THEN TRANSFORMS(r.node) ELSE <<>>
    /\ UNCHANGED <<_is_external, _external_readable, _external_writable, sql, prev, scan>>

ParseLocationClause ==
    /\ outcome.op = "none"
    /\ Tokenize(sql)[1].text = "LOCATION"
    /\ ParseClause("location")

ParseDistributedByClause ==
    /\ outcome.op = "none"
    /\ Tokenize(sql)[1].text = "DISTRIBUTED BY"
    /\ ParseClause("distributed_by")

ParseFormatClause ==
    /\ outcome.op = "none"
    /\ Tokenize(sql)[1].text = "FORMAT"
    /\ ParseClause("format")

ParseEncodingClause ==
    /\ outcome.op = "none"
    /\ Tokenize(sql)[1].text = "ENCODING"
    /\ ParseClause("encoding")

NextClause ==
    \/ ParseLocationClause
    \/ ParseDistributedByClause
    \/ ParseFormatClause
    \/ ParseEncodingClause

SpecClause == InitClause /\ [][NextClause]_vars

(***************************************************************************)
(* SpecRender: the serializer on CREATE statements whose property          *)
(* collection was built by hand or produced by a fresh parser.             *)
(***************************************************************************)
BuildNodes ==
    {ExternalProperty, ReadableProperty, WritableProperty,
     DistributedByProperty(<<"id">>), DistributedRandomlyProperty,
     LocationProperty(<<"a">>, "ALL"),
     FormatProperty("CSV", TRUE, <<Item("HEADER", TRUE, "")>>),
     EncodingProperty("a")}

\* parse_one of the plain statement, then nodes appended to its collection.
BuiltStatements ==
    {Create("TABLE", "users", <<"(", "id", "INT", ")">>, TRUE, c) :
        c \in SeqsUpTo(BuildNodes, MaxBuilt)}

InitRender ==
    /\ _is_external = FALSE
    /\ _external_readable = FALSE
    /\ _external_writable = FALSE
    /\ prev = NoPrev
    /\ generated = <<>>
    /\ scan = NoScan
    /\ \/ /\ sql = <<>>
          /\ \E c \in BuiltStatements : outcome = Outcome("built", TRUE, "", c, NoNode, 0)
       \/ /\ sql \in TableStatements
          /\ \E r \in {_parse_statement(Tokenize(sql), Flags(FALSE, FALSE, FALSE))} :
                /\ r.result.ok
                /\ outcome = Outcome("parsed", TRUE, "", r.result.create, NoNode, r.result.pos)

\* create.sql(dialect="greenplum") of the statement.
Generate ==
    /\ generated' = create_sql(outcome.create)
    /\ UNCHANGED <<_is_external, _external_readable, _external_writable, sql, prev, scan>>

GenerateBuilt ==
    /\ outcome.op = "built"
    /\ outcome' = [outcome EXCEPT !.op = "rendered built"]
    /\ Generate

GenerateParsed ==
    /\ outcome.op = "parsed"
    /\ outcome' = [outcome EXCEPT !.op = "rendered parsed"]
    /\ Generate

NextRender == GenerateBuilt \/ GenerateParsed

SpecRender == InitRender /\ [][NextRender]_vars

(***************************************************************************)
(* Claims about the parser instance (Spec).                                *)
(***************************************************************************)
\* C1 (as claimed): when the statement parsed before carried an external
\* prefix, whether its parse returned or failed, and the statement parsed
\* last carries none, the statement produced for the last one holds no
\* External, Readable or Writable node.
C1_NonLeakage ==
    (/\ outcome.op = "statement" /\ outcome.ok
     /\ prev.parsed /\ prev.prefix
     /\ ~HasExternalPrefix(sql))
    => Kinds(outcome.create) \cap MarkerKinds = {}

\* C2 (as claimed): once a statement parse has ended, on whichever path,
\* none of the three session flags is set.
C2_FlagsCleared ==
    outcome.op = "statement"
    => ~_is_external /\ ~_external_readable /\ ~_external_writable

\* C3 (as claimed): a statement the parser produced, after any earlier
\* parses on the instance, holds at most one of Readable and Writable.
C3_MutualExclusion ==
    (outcome.op = "statement" /\ outcome.ok)
    => ~({"Readable", "Writable"} \subseteq Kinds(outcome.create))

\* C4 (as claimed): a CREATE [READABLE|WRITABLE] EXTERNAL TABLE statement
\* that parses renders back to the words it was read from, the modifier
\* before EXTERNAL.
C4_PrefixRoundTrip ==
    (/\ outcome.op = "statement" /\ outcome.ok
     /\ HasExternalPrefix(sql))
    => create_sql(outcome.create) = sql

(***************************************************************************)
(* Claims about the clause parsers (SpecClause).                           *)
(***************************************************************************)
ScopeWords == {"ALL", "MASTER", "SEGMENTS"}

\* LOCATION ( 'uri' [, 'uri' ...] ) for the given string literals.
LocationList_sql(uris) ==
    <<"LOCATION", "(">> \o CommaJoin([j \in 1..Len(uris) |-> <<uris[j]>>]) \o <<")">>

UriLists == SeqsUpTo(StringLiterals, 2) \ {<<>>}

\* C5 (as claimed): ON ALL, ON MASTER or ON SEGMENTS directly after the
\* closing parenthesis of a LOCATION list gives a Location node with that
\* segment-scope, rendered back as ON <SCOPE>; with no ON qualifier the
\* parse succeeds and the segment-scope is unset.
C5_SegmentScope ==
    outcome.op = "location"
    => \A uris \in UriLists :
          /\ \A scope \in ScopeWords :
                sql = LocationList_sql(uris) \o <<"ON", scope>>
                => /\ outcome.ok
                   /\ outcome.node.segments = scope
                   /\ generated = sql
          /\ sql = LocationList_sql(uris)
             => outcome.ok /\ outcome.node.segments = "None"

\* The words have '(' at index open and a ')' after it with none of the
\* given words in between.
EmptyParens(words, open, items) ==
    /\ Len(words) > open
    /\ words[open] = "("
    /\ \E j \in (open + 1)..Len(words) :
          /\ words[j] = ")"
          /\ \A k \in (open + 1)..(j - 1) : words[k] \notin items

LocationMessages ==
    {"Expected '(' after LOCATION",
     "Expected ')' after LOCATION parameters",
     "Expected at least one location in LOCATION clause"}

\* C6: LOCATION followed by '(' and ')' with no string literal between
\* them raises an error whose message names LOCATION and returns no node;
\* every Location node returned has a non-empty URI sequence.
C6_EmptyLocationFails ==
    outcome.op = "location"
    => /\ EmptyParens(sql, 2, StringLiterals)
          => /\ ~outcome.ok
             /\ outcome.msg \in LocationMessages
             /\ outcome.node = NoNode
       /\ outcome.ok
          => outcome.node.kind = "Location" /\ outcome.node.expressions # <<>>

\* C6, its case: LOCATION ( ) was parsed and the empty list was reported.
C6_Witness ==
    /\ outcome.op = "location"
    /\ sql = <<"LOCATION", "(", ")">>
    /\ ~outcome.ok
    /\ outcome.msg = "Expected at least one location in LOCATION clause"

DistributedByMessages ==
    {"Expected '(' after DISTRIBUTED BY",
     "Expected ')' after DISTRIBUTED BY column list",
     "Required argument 'expressions' missing for DistributedByProperty"}

Identifiers == {"id", "users"}

\* C7: DISTRIBUTED BY followed by '(' and ')' with no identifier between
\* them fails with an error naming the clause and returns no node; it
\* fails too when either parenthesis is missing; every DistributedBy node
\* returned has a non-empty column sequence.
C7_EmptyDistributedByFails ==
    outcome.op = "distributed_by"
    => /\ EmptyParens(sql, 3, Identifiers)
          => /\ ~outcome.ok
             /\ outcome.msg \in DistributedByMessages
             /\ outcome.node = NoNode
       /\ (Len(sql) < 3 \/ sql[3] # "(") => ~outcome.ok
       /\ (\A j \in 1..Len(sql) : sql[j] # ")") => ~outcome.ok
       /\ outcome.ok
          => outcome.node.kind = "DistributedBy" /\ outcome.node.expressions # <<>>

\* C7, its case: DISTRIBUTED BY ( ) was parsed and failed with no node.
C7_Witness ==
    /\ outcome.op = "distributed_by"
    /\ sql = <<"DISTRIBUTED", "BY", "(", ")">>
    /\ ~outcome.ok
    /\ outcome.node = NoNode

\* A value-taking key of the option list, after an optional '=' or AS, is
\* not followed by a string literal.
MissingValue(words) ==
    \E j \in 1..Len(words) :
        /\ words[j] \in ValueKeys \cup GenericKeys
        /\ LET k == IF j + 1 <= Len(words) /\ words[j + 1] \in {"=", "AS"}
                    THEN j + 2 ELSE j + 1
           IN k > Len(words) \/ words[k] \notin StringLiterals

\* C8 (as claimed): a FORMAT option list in which a value-taking key has no
\* string-literal value fails the parse.
C8_MissingValueFails ==
    (outcome.op = "format" /\ MissingValue(sql)) => ~outcome.ok

\* The options of the recognized keys in canonical form.
CanonicalPhrases ==
    {<<k, "=", "'a'">> : k \in ValueKeys}
    \cup {<<"HEADER">>, <<"FILL", "MISSING", "FIELDS">>}

\* Option lists of canonical options, each key at most once.
CanonicalLists ==
    {o \in SeqsUpTo(CanonicalPhrases, MaxOptions) :
        o # <<>> /\ \A i, j \in 1..Len(o) : o[i] = o[j] => i = j}

\* C9 (as claimed): a FORMAT clause of canonical options renders back to
\* its own words, and FORMAT 'name' with no or an empty option list renders
\* as FORMAT 'name'.
C9_FormatRoundTrip ==
    outcome.op = "format"
    => /\ \A o \in CanonicalLists :
             sql = <<"FORMAT", "'CSV'", "(">> \o CommaJoin(o) \o <<")">>
             => outcome.ok /\ generated = sql
       /\ sql \in {<<"FORMAT", "'CSV'">>, <<"FORMAT", "'CSV'", "(", ")">>}
          => outcome.ok /\ generated = <<"FORMAT", "'CSV'">>

\* The separators a key of the option list may be written with before its
\* value: AS, '=', none.
Separators == {<<"AS">>, <<"=">>, <<>>}

\* C12 (as claimed): inside a FORMAT option list each of the keys FORMATTER,
\* DELIMITER, NULL, QUOTE, ESCAPE and NEWLINE is accepted as key AS 'v', as
\* key = 'v' and as key 'v'; in each form the parse succeeds and the option
\* mapping of the Format node records the key with the value v.
C12_ThreeForms ==
    outcome.op = "format"
    => \A k \in ValueKeys, sep \in Separators :
          sql = <<"FORMAT", "'CSV'", "(", k>> \o sep \o <<"'a'", ")">>
          => /\ outcome.ok
             /\ outcome.node.hasOptions
             /\ outcome.node.options = <<Item(k, FALSE, StringText("'a'"))>>

(***************************************************************************)
(* Claims about the serializer (SpecRender).                               *)
(***************************************************************************)
SchemaKinds == {"DistributedBy", "DistributedRandomly", "Location", "Format", "Encoding"}

\* The nodes of the given kinds, in collection order.
RECURSIVE SelectKinds(_, _)
SelectKinds(properties, kinds) ==
    IF properties = <<>> THEN <<>>
    ELSE (IF properties[1].kind \in kinds THEN <<properties[1]>> ELSE <<>>)
         \o SelectKinds(Tail(properties), kinds)

\* C10: the rendered CREATE statement has the External/Readable/Writable
\* nodes between CREATE and TABLE and the DistributedBy,
\* DistributedRandomly, Location, Format and Encoding nodes after the
\* column schema, each group in collection order, whether the collection
\* was parsed or built by hand.
C10_PlacementAndOrder ==
    outcome.op \in {"rendered built", "rendered parsed"}
    => generated =
          <<"CREATE">>
          \o PropertiesSql(SelectKinds(outcome.create.properties, MarkerKinds))
          \o <<"TABLE", outcome.create.name>>
          \o outcome.create.schema
          \o PropertiesSql(SelectKinds(outcome.create.properties, SchemaKinds))

\* C10, its case: a collection with a marker between two clauses rendered.
C10_Witness ==
    /\ outcome.op = "rendered built"
    /\ Len(outcome.create.properties) = 3
    /\ outcome.create.properties[1].kind = "Location"
    /\ outcome.create.properties[2].kind = "Writable"
    /\ outcome.create.properties[3].kind = "DistributedBy"
    /\ generated = <<"CREATE", "WRITABLE", "TABLE", "users", "(", "id", "INT", ")",
                     "LOCATION", "(", "'a'", ")", "ON", "ALL",
                     "DISTRIBUTED", "BY", "(", "id", ")">>

(***************************************************************************)
(* Claims on the marker injection and the prefix scan, under SpecScan.     *)
(***************************************************************************)
\* C11: when the generic create-parse returns a table-create statement,
\* _parse_create appends marker nodes if and only if the external flag is
\* set: behind all nodes of the generic parse it appends one External node,
\* then one Readable node iff the readable flag is set, then one Writable
\* node iff the writable flag is set, and the statement has a property
\* collection afterwards; when the external flag is not set the property
\* collection is the one the generic parse returned.
C11_MarkerInjection ==
    (/\ outcome.op = "statement" /\ outcome.ok
     /\ scan.called /\ scan.generic.kind = "TABLE")
    => IF scan.flags.external
       THEN /\ outcome.create.hasProperties
            /\ outcome.create.properties =
                  scan.generic.properties
                  \o <<ExternalProperty>>
                  \o (IF scan.flags.readable THEN <<ReadableProperty>> ELSE <<>>)
                  \o (IF scan.flags.writable THEN <<WritableProperty>> ELSE <<>>)
       ELSE /\ outcome.create.hasProperties = scan.generic.hasProperties
            /\ outcome.create.properties = scan.generic.properties

\* C11: a statement with clauses and the readable and external flags set
\* got External and Readable appended behind the nodes of its clauses.
C11_Witness ==
    /\ outcome.op = "statement" /\ outcome.ok
    /\ scan.called /\ scan.generic.kind = "TABLE"
    /\ scan.flags.external /\ scan.flags.readable
    /\ Len(scan.generic.properties) >= 2
    /\ Len(outcome.create.properties) >= Len(scan.generic.properties) + 2
    /\ outcome.create.properties[Len(scan.generic.properties) + 1].kind = "External"
    /\ outcome.create.properties[Len(scan.generic.properties) + 2].kind = "Readable"

C14_ExactKeywordMatching ==
    (outcome.op = "statement" /\ scan.called)
    => LET toks == Tokenize(sql)
           first == TextAt(toks, scan.pos)
           modifier == first \in {"READABLE", "WRITABLE"}
           external == TextAt(toks, IF modifier THEN scan.pos + 1 ELSE scan.pos) = "EXTERNAL"
       IN /\ (scan.flags.readable /\ ~scan.before.readable) => first = "READABLE"
          /\ (scan.flags.writable /\ ~scan.before.writable) => first = "WRITABLE"
          /\ (scan.flags.external /\ ~scan.before.external) => external
          /\ scan.start > scan.pos => external
          /\ (~modifier /\ first # "EXTERNAL")
             => scan.start = scan.pos /\ scan.flags = scan.before

====
